---- MODULE Spec2Model ----
(***************************************************************************)
(* dmch: the homepage rewriter (src/dmch.py) and the image-preservation    *)
(* validation report (src/validate_images.py).                             *)
(*                                                                         *)
(* A document is a sequence of element nodes in document (pre-)order; each *)
(* node names its parent by index (0: top level).  A node removed from the *)
(* tree keeps its index and has alive = FALSE, so that "the same element,  *)
(* at the same place" can be stated.  An element's direct text is its      *)
(* text field.  An href is a sequence of tokens, each token a chunk of     *)
(* characters: "/", "article-", one digit, a scheme ("http:", "https:"),   *)
(* a host ("//www.dailymail.co.uk") or a word without "/" or digits.       *)
(* Anchors do not nest (HTML's content model).                             *)
(***************************************************************************)
EXTENDS Integers, Sequences, FiniteSets, TLC

\* Bound: the number of top-level fragments of a homepage.
MaxTop == 3
\* Bound: the number of top-level fragments of a document the validator reads.
MaxVTop == 2

VARIABLES
    hp,                 \* the homepage server's answer (environment)
    pc,                 \* main()'s position
    soup,               \* dm_hp_content_soup
    all_links,          \* all_links: indices of the matched anchors
    articles_dict,      \* articles_dict: sequence of [id, links], insertion order
    i,                  \* number of articles_dict items already processed
    results,            \* per processed article: [found, comment] as main() took
                        \* it, and the class of the server's answer
    fetches,            \* number of comment fetches issued
    total_image_links_preserved,
    billboard_count,
    ad_slot_count,
    output,             \* index.html: [written, doc]
    exitCode,           \* -1 while running
    vin,                \* validator: [orig, proc]: what the two loads give
    vpc,                \* validator: position
    vExit               \* validator: return value, -1 while running

vars == <<hp, pc, soup, all_links, articles_dict, i, results, fetches,
          total_image_links_preserved, billboard_count, ad_slot_count,
          output, exitCode, vin, vpc, vExit>>

mainVars == <<hp, pc, soup, all_links, articles_dict, i, results, fetches,
              total_image_links_preserved, billboard_count, ad_slot_count,
              output, exitCode>>

valVars == <<vin, vpc, vExit>>

-----------------------------------------------------------------------------
(* Sequences *)

Range(s) == {s[k] : k \in DOMAIN s}

Indices(s) == [k \in 1..Len(s) |-> k]

Min(S) == CHOOSE x \in S : \A y \in S : x <= y

-----------------------------------------------------------------------------
(* hrefs and the two regular expressions *)

Digits == {"0", "1", "2", "3", "4", "5", "6", "7", "8", "9"}

\* The end of the run of digits that starts at s[k] (k - 1 when s[k] is no digit).
RECURSIVE DigitRunEnd(_, _)
DigitRunEnd(s, k) ==
    IF k <= Len(s) /\ s[k] \in Digits THEN DigitRunEnd(s, k + 1) ELSE k - 1

\* re.compile(r'/[^/]+/article-\d+/').search(href)
HrefMatches(s) ==
    \E a \in 1..Len(s) : \E b \in (a + 2)..Len(s) :
        /\ s[a] = "/"
        /\ \A m \in (a + 1)..(b - 1) : s[m] # "/"
        /\ s[b] = "/"
        /\ b + 3 <= Len(s)
        /\ s[b + 1] = "article-"
        /\ s[b + 2] \in Digits
        /\ DigitRunEnd(s, b + 2) + 1 <= Len(s)
        /\ s[DigitRunEnd(s, b + 2) + 1] = "/"

\* The positions where r"article-(\d+)" matches.
ArticleMatchStarts(s) ==
    {k \in 1..Len(s) : s[k] = "article-" /\ k + 1 <= Len(s) /\ s[k + 1] \in Digits}

\* article_re.findall(href)[0] as <<id>>, or <<>> when findall gives no match.
FindArticleId(s) ==
    IF ArticleMatchStarts(s) = {} THEN <<>>
    ELSE LET k == Min(ArticleMatchStarts(s))
         IN  <<SubSeq(s, k + 1, DigitRunEnd(s, k + 1))>>

\* link["href"].startswith("http")
StartsWithHttp(s) == Len(s) > 0 /\ s[1] \in {"http:", "https:"}

SiteOrigin == <<"https:", "//www.dailymail.co.uk">>

\* Variant: the href is left as it is.
AbsolutizeOmitted(s) == s

\* f"https://www.dailymail.co.uk{link['href']}" unless the href starts with http
Absolutize(s) == IF StartsWithHttp(s) THEN s ELSE SiteOrigin \o s

\* hp_str.replace("http://scripts...", "https://scripts...") and the same for i.
RECURSIVE SecureAssets(_)
SecureAssets(s) ==
    IF Len(s) = 0 THEN <<>>
    ELSE IF /\ Len(s) >= 2
            /\ s[1] = "http:"
            /\ s[2] \in {"//scripts.dailymail.co.uk", "//i.dailymail.co.uk"}
         THEN <<"https:", s[2]>> \o SecureAssets(SubSeq(s, 3, Len(s)))
         ELSE <<s[1]>> \o SecureAssets(Tail(s))

-----------------------------------------------------------------------------
(* The document tree (BeautifulSoup) *)

Node(tag, parent, hasHref, href, cls, text) ==
    [tag |-> tag, parent |-> parent, hasHref |-> hasHref, href |-> href,
     cls |-> cls, text |-> text, alive |-> TRUE]

\* Whether node j lies below node a.
RECURSIVE IsDesc(_, _, _)
IsDesc(d, a, j) ==
    IF j = 0 THEN FALSE
    ELSE IF d[j].parent = a THEN TRUE
    ELSE IsDesc(d, a, d[j].parent)

\* find_all gives the matching elements of the tree in document order.

\* soup.find_all("a", href=article_href_pattern)
FindArticleLinks(d) ==
    SelectSeq(Indices(d),
              LAMBDA j : /\ d[j].alive
                         /\ d[j].tag = "a"
                         /\ d[j].hasHref
                         /\ HrefMatches(d[j].href))

\* soup.find_all(class_="billboard-container")
FindBillboards(d) ==
    SelectSeq(Indices(d), LAMBDA j : d[j].alive /\ d[j].cls = "billboard-container")

\* soup.find_all("ad-slot")
FindAdSlots(d) ==
    SelectSeq(Indices(d), LAMBDA j : d[j].alive /\ d[j].tag = "ad-slot")

\* link.find(tag): the first descendant with that tag, 0 for None.
Find(d, a, tag) ==
    LET S == {j \in DOMAIN d : d[j].alive /\ d[j].tag = tag /\ IsDesc(d, a, j)}
    IN  IF S = {} THEN 0 ELSE Min(S)

\* element.clear(): every child (text and elements) leaves the tree.
Clear(d, a) ==
    [j \in DOMAIN d |->
        IF IsDesc(d, a, j) THEN [d[j] EXCEPT !.alive = FALSE]
        ELSE IF j = a THEN [d[j] EXCEPT !.text = ""]
        ELSE d[j]]

\* element.append(NavigableString(s)) on an element: s follows its direct text.
\* (The text of an element is "" after clear().)
AppendString(d, a, s) ==
    [d EXCEPT ![a].text = IF @ = "" THEN s ELSE "mixed"]

\* Variant: only the element itself leaves the tree.
DecomposeShallow(d, a) == [d EXCEPT ![a].alive = FALSE]

\* element.decompose(): the element and everything below it leave the tree.
Decompose(d, a) ==
    [j \in DOMAIN d |->
        IF j = a \/ IsDesc(d, a, j) THEN [d[j] EXCEPT !.alive = FALSE] ELSE d[j]]

RECURSIVE DecomposeAll(_, _)
DecomposeAll(d, elems) ==
    IF Len(elems) = 0 THEN d
    ELSE DecomposeAll(Decompose(d, Head(elems)), Tail(elems))

\* str(soup) with the two prefix replacements applied to the text.  The
\* written document keeps each node's index; removed nodes have alive = FALSE.
Serialize(d) ==
    [j \in DOMAIN d |-> [d[j] EXCEPT !.href = SecureAssets(@)]]

-----------------------------------------------------------------------------
(* Python values decoded from JSON, and the operations main() applies *)

JNull == [t |-> "null", v |-> <<>>]
JStr(s) == [t |-> "str", v |-> s]
JInt(n) == [t |-> "int", v |-> n]
JList(items) == [t |-> "list", v |-> items]
JDict(fields) == [t |-> "dict", v |-> fields]
EmptyDict == JDict(<<>>)

\* The outcome of evaluating an expression: a value, or an exception raised.
Ok(x) == [exc |-> "", val |-> x]
Raise(e) == [exc |-> e, val |-> JNull]

Truthy(x) ==
    CASE x.t = "null" -> FALSE
      [] x.t = "int"  -> x.v # 0
      [] x.t = "str"  -> x.v # ""
      [] OTHER        -> DOMAIN x.v # {}

\* x.get(key)
PyGet(x, key) ==
    IF x.t # "dict" THEN Raise("AttributeError")
    ELSE IF key \in DOMAIN x.v THEN Ok(x.v[key]) ELSE Ok(JNull)

\* x[key], key a string
PyItemStr(x, key) ==
    IF x.t = "dict"
    THEN IF key \in DOMAIN x.v THEN Ok(x.v[key]) ELSE Raise("KeyError")
    ELSE Raise("TypeError")

\* x[0]
PyItem0(x) ==
    CASE x.t = "dict" -> Raise("KeyError")
      [] x.t = "list" -> IF Len(x.v) > 0 THEN Ok(x.v[1]) ELSE Raise("IndexError")
      [] x.t = "str"  -> IF x.v # "" THEN Ok(JStr("c")) ELSE Raise("IndexError")
      [] OTHER        -> Raise("TypeError")

\* len(x) > 0
PyLenPositive(x) ==
    IF x.t \in {"dict", "list", "str"}
    THEN [exc |-> "", val |-> JInt(IF Truthy(x) THEN 1 ELSE 0)]
    ELSE Raise("TypeError")

-----------------------------------------------------------------------------
(* fetch_url and the answers of the two servers *)

\* A server's answer: what urlopen/read raise ("" for nothing), the status and
\* the body.  A body is None, empty, html, notjson, badutf8 or json (with val).
Resp(raises, status, kind, val) ==
    [raises |-> raises, status |-> status, body |-> [kind |-> kind, val |-> val]]

NoneBody == [kind |-> "None", val |-> JNull]
NoneStatus == -1

\* fetch_url: URLError and HTTPError give (None, None); anything else raised
\* inside the with block (a read timeout) leaves fetch_url.
fetch_url(r) ==
    IF r.raises \in {"URLError", "HTTPError"}
    THEN [exc |-> "", content |-> NoneBody, status |-> NoneStatus]
    ELSE IF r.raises # ""
    THEN [exc |-> r.raises, content |-> NoneBody, status |-> NoneStatus]
    ELSE [exc |-> "", content |-> r.body, status |-> r.status]

\* Truth value of the bytes (or None) fetch_url returned.
ContentTruthy(c) == c.kind \notin {"None", "empty"}

\* if status_code != 200 or dm_hp_content is None: sys.exit(1)
HomepageFailed(f) == f.status # 200 \/ f.content.kind = "None"

\* Variant: the status is not looked at.
CommentFetchedAnyStatus(f) == ContentTruthy(f.content)

\* if comment_status == 200 and comment_content:
CommentFetched(f) == f.status = 200 /\ ContentTruthy(f.content)

\* json.loads(comment_content)
JsonLoads(c) ==
    CASE c.kind = "json"    -> Ok(c.val)
      [] c.kind = "badutf8" -> Raise("UnicodeDecodeError")
      [] OTHER              -> Raise("JSONDecodeError")

\* Lines 97-100: the top comment of the decoded answer.  val is the comment
\* when found is TRUE.
NoComment == [exc |-> "", found |-> FALSE, val |-> JNull]
Failed(e) == [exc |-> e, found |-> FALSE, val |-> JNull]

ExtractComment(comment_data) ==
    LET payload == PyGet(comment_data, "payload")
    IN  IF payload.exc # "" THEN Failed(payload.exc)
        ELSE IF ~Truthy(payload.val) THEN NoComment
        ELSE
    LET page == PyGet(payload.val, "page")
    IN  IF page.exc # "" THEN Failed(page.exc)
        ELSE IF ~Truthy(page.val) THEN NoComment
        ELSE
    LET positive == PyLenPositive(page.val)
    IN  IF positive.exc # "" THEN Failed(positive.exc)
        ELSE IF positive.val.v = 0 THEN NoComment
        ELSE
    LET first == PyItem0(page.val)
    IN  IF first.exc # "" THEN Failed(first.exc)
        ELSE
    LET message == PyItemStr(first.val, "message")
    IN  IF message.exc # "" THEN Failed(message.exc)
        ELSE [exc |-> "", found |-> TRUE, val |-> message.val]

\* except (KeyError, IndexError, json.JSONDecodeError)
Caught == {"KeyError", "IndexError", "JSONDecodeError"}

\* Lines 93-100 and 134-137: how one comment answer is classified.  exc is the
\* exception that leaves main() ("" for none).
ClassifyComment(f) ==
    IF ~CommentFetched(f) THEN NoComment
    ELSE LET data == JsonLoads(f.content)
         IN  IF data.exc \in Caught THEN NoComment
             ELSE IF data.exc # "" THEN Failed(data.exc)
             ELSE LET c == ExtractComment(data.val)
                  IN  IF c.exc \in Caught THEN NoComment ELSE c

-----------------------------------------------------------------------------
(* The rewrite loop, lines 102-124 *)

\* link["href"] = absolute form, lines 123-124
AbsHref(d, link) == [d EXCEPT ![link].href = Absolutize(@)]

\* element.clear(); element.append(NavigableString(comment)).  NavigableString
\* raises TypeError for a value that is no str.
ReplaceContent(st, el, comment) ==
    IF comment.t # "str"
    THEN [st EXCEPT !.d = Clear(st.d, el), !.exc = "TypeError"]
    ELSE [st EXCEPT !.d = AppendString(Clear(st.d, el), el, comment.v),
                    !.headline_updated = TRUE]

\* Variant: a strong element is rewritten only while no headline was updated.
RewriteLinkFirstOnly(st, link, comment) ==
    LET s1 == IF Find(st.d, link, "img") = 0
              THEN IF ~st.headline_updated
                   THEN ReplaceContent(st, link, comment)
                   ELSE st
              ELSE LET strong_tag == Find(st.d, link, "strong")
                       s0 == IF strong_tag # 0 /\ ~st.headline_updated
                             THEN ReplaceContent(st, strong_tag, comment)
                             ELSE st
                   IN  IF s0.exc # "" THEN s0
                       ELSE [s0 EXCEPT !.links_with_images = @ + 1]
    IN  IF s1.exc # "" THEN s1 ELSE [s1 EXCEPT !.d = AbsHref(@, link)]

\* One iteration of "for link in links".
RewriteLink(st, link, comment) ==
    LET s1 == IF Find(st.d, link, "img") = 0
              THEN IF ~st.headline_updated
                   THEN ReplaceContent(st, link, comment)
                   ELSE st
              ELSE LET strong_tag == Find(st.d, link, "strong")
                       s0 == IF strong_tag # 0
                             THEN ReplaceContent(st, strong_tag, comment)
                             ELSE st
                   IN  IF s0.exc # "" THEN s0
                       ELSE [s0 EXCEPT !.links_with_images = @ + 1]
    IN  IF s1.exc # "" THEN s1 ELSE [s1 EXCEPT !.d = AbsHref(@, link)]

RECURSIVE RewriteLinks(_, _, _)
RewriteLinks(st, links, comment) ==
    IF Len(links) = 0 \/ st.exc # "" THEN st
    ELSE RewriteLinks(RewriteLink(st, Head(links), comment), Tail(links), comment)

RewriteGroup(d, links, comment) ==
    RewriteLinks([d |-> d, headline_updated |-> FALSE, links_with_images |-> 0,
                  exc |-> ""], links, comment)

-----------------------------------------------------------------------------
(* Grouping, lines 65-73 *)

\* The position of article_id among the keys of the dict, 0 when absent.
KeyIndex(dict, article_id) ==
    LET S == {k \in DOMAIN dict : dict[k].id = article_id}
    IN  IF S = {} THEN 0 ELSE Min(S)

\* Variant: a later link of an article replaces the list instead of joining it.
GroupLinkOverwrite(dict, d, link) ==
    LET matches == FindArticleId(d[link].href)
    IN  IF matches = <<>> THEN dict
        ELSE LET article_id == matches[1]
                 k == KeyIndex(dict, article_id)
             IN  IF k = 0
                 THEN Append(dict, [id |-> article_id, links |-> <<link>>])
                 ELSE [dict EXCEPT ![k].links = <<link>>]

\* One iteration of "for link in all_links".
GroupLink(dict, d, link) ==
    LET matches == FindArticleId(d[link].href)
    IN  IF matches = <<>> THEN dict
        ELSE LET article_id == matches[1]
                 k == KeyIndex(dict, article_id)
             IN  IF k = 0
                 THEN Append(dict, [id |-> article_id, links |-> <<link>>])
                 ELSE [dict EXCEPT ![k].links = Append(@, link)]

RECURSIVE GroupLinks(_, _, _)
GroupLinks(dict, d, links) ==
    IF Len(links) = 0 THEN dict
    ELSE GroupLinks(GroupLink(dict, d, Head(links)), d, Tail(links))

-----------------------------------------------------------------------------
(* Inputs: homepages and server answers *)

HrefR1 == <<"/", "news", "/", "article-", "1", "/", "a.html">>
HrefR2 == <<"/", "sport", "/", "article-", "2", "3", "/", "b.html">>
HrefA2 == <<"http:", "//i.dailymail.co.uk", "/", "sport", "/", "article-", "2", "3", "/">>
\* the id findall gives first is not the one the href pattern matched
HrefW  == <<"/", "article-", "2", "3", "/", "tv", "/", "article-", "1", "/">>
\* findall matches, the href pattern does not
HrefX  == <<"article-", "1", "/">>

A(href, text) == Node("a", 0, TRUE, href, "", text)
Img(parent) == Node("img", parent, FALSE, <<>>, "", "")
Strong(parent) == Node("strong", parent, FALSE, <<>>, "", "old")
Billboard(parent) == Node("div", parent, FALSE, <<>>, "billboard-container", "")
AdSlotEl(parent) == Node("ad-slot", parent, FALSE, <<>>, "", "")

AnchorP(h)  == <<A(h, "old")>>                        \* <a>old</a>
AnchorI(h)  == <<A(h, ""), Img(1)>>                   \* <a><img></a>
AnchorIS(h) == <<A(h, ""), Img(1), Strong(1)>>        \* <a><img><strong>old</strong></a>
AnchorSI(h) == <<A(h, ""), Strong(1), Img(2)>>        \* <a><strong>old<img></strong></a>
AnchorB(h)  == <<A(h, "old"), Billboard(1), AdSlotEl(2)>>
Billboards  == <<Billboard(0), Billboard(1), AdSlotEl(2)>>
AdSlot      == <<AdSlotEl(0)>>

Fragments ==
    {AnchorP(HrefR1), AnchorP(HrefA2), AnchorP(HrefW), AnchorP(HrefX),
     AnchorI(HrefR1), AnchorIS(HrefR1), AnchorSI(HrefR1), AnchorB(HrefR1),
     Billboards, AdSlot}

\* A fragment placed after off nodes.
Shift(frag, off) ==
    [j \in DOMAIN frag |->
        IF frag[j].parent = 0 THEN frag[j] ELSE [frag[j] EXCEPT !.parent = @ + off]]

RECURSIVE DocOf(_)
DocOf(frags) ==
    IF Len(frags) = 0 THEN <<>>
    ELSE LET front == DocOf(SubSeq(frags, 1, Len(frags) - 1))
         IN  front \o Shift(frags[Len(frags)], Len(front))

DocsOver(F, n) == {DocOf(fs) : fs \in UNION {[1..m -> F] : m \in 0..n}}

Homepages == DocsOver(Fragments, MaxTop)

\* What the homepage server may answer.  doc is what the parser makes of the body.
HomepageAnswers ==
    {[r |-> Resp("", 200, "html", JNull), doc |-> d] : d \in Homepages}
    \cup {[r |-> Resp("", 200, "empty", JNull), doc |-> <<>>],
          [r |-> Resp("", 203, "html", JNull), doc |-> AnchorP(HrefR1)],
          [r |-> Resp("HTTPError", 404, "html", JNull), doc |-> AnchorP(HrefR1)],
          [r |-> Resp("URLError", 0, "None", JNull), doc |-> <<>>],
          [r |-> Resp("TimeoutError", 200, "html", JNull), doc |-> AnchorP(HrefR1)]}

Comment == JStr("comment")

PageOf(entries) == JDict([payload |-> JDict([page |-> entries])])

\* What the comment server may answer.
CommentAnswers ==
    <<Resp("", 200, "json", PageOf(JList(<<JDict([message |-> Comment])>>))),
      Resp("URLError", 0, "None", JNull),
      Resp("HTTPError", 500, "json", PageOf(JList(<<JDict([message |-> Comment])>>))),
      Resp("TimeoutError", 200, "json", JNull),
      Resp("", 203, "json", PageOf(JList(<<JDict([message |-> Comment])>>))),
      Resp("", 200, "empty", JNull),
      Resp("", 200, "notjson", JNull),
      Resp("", 200, "badutf8", JNull),
      Resp("", 200, "json", EmptyDict),
      Resp("", 200, "json", JNull),
      Resp("", 200, "json", JList(<<>>)),
      Resp("", 200, "json", JDict([payload |-> JStr("none")])),
      Resp("", 200, "json", PageOf(JList(<<>>))),
      Resp("", 200, "json", PageOf(JStr("abc"))),
      Resp("", 200, "json", PageOf(JDict([total |-> JInt(1)]))),
      Resp("", 200, "json", PageOf(JList(<<JDict([id |-> JInt(7)])>>))),
      Resp("", 200, "json", PageOf(JList(<<JStr("abc")>>))),
      Resp("", 200, "json", PageOf(JList(<<JDict([message |-> JInt(7)])>>)))>>

\* NotFound as the specification defines it, on the server's answer itself.
HasNonEmptyPageArray(x) ==
    /\ x.t = "dict"
    /\ "payload" \in DOMAIN x.v
    /\ x.v["payload"].t = "dict"
    /\ "page" \in DOMAIN x.v["payload"].v
    /\ x.v["payload"].v["page"].t = "list"
    /\ Len(x.v["payload"].v["page"].v) > 0

AnswerNotFound(r) ==
    \/ r.raises # ""
    \/ r.status # 200
    \/ r.body.kind \in {"None", "empty", "notjson", "badutf8"}
    \/ r.body.kind = "json" /\ ~HasNonEmptyPageArray(r.body.val)

AnswerClass(r) == IF AnswerNotFound(r) THEN "NotFound" ELSE "HasPage"

-----------------------------------------------------------------------------
(* main() of dmch.py *)

NoOutput == [written |-> FALSE, doc |-> <<>>]
NoInput == [orig |-> <<>>, proc |-> <<>>, origOk |-> FALSE, procOk |-> FALSE]

MainStart ==
    /\ pc = "fetch_homepage"
    /\ soup = <<>>
    /\ all_links = <<>>
    /\ articles_dict = <<>>
    /\ i = 0
    /\ results = <<>>
    /\ fetches = 0
    /\ total_image_links_preserved = 0
    /\ billboard_count = 0
    /\ ad_slot_count = 0
    /\ output = NoOutput
    /\ exitCode = -1

ValidatorIdle == vin = NoInput /\ vpc = "idle" /\ vExit = -1

Init ==
    /\ hp \in HomepageAnswers
    /\ MainStart
    /\ ValidatorIdle

\* Lines 49-58: fetch the homepage, leave on failure, parse it.
FetchHomepage ==
    /\ pc = "fetch_homepage"
    /\ LET f == fetch_url(hp.r)
       IN  IF f.exc # ""
           THEN pc' = "crashed" /\ exitCode' = 1 /\ soup' = soup
           ELSE IF HomepageFailed(f)
           THEN pc' = "exited" /\ exitCode' = 1 /\ soup' = soup
           ELSE pc' = "group" /\ exitCode' = exitCode /\ soup' = hp.doc
    /\ UNCHANGED <<hp, all_links, articles_dict, i, results, fetches,
                   total_image_links_preserved, billboard_count, ad_slot_count,
                   output>>
    /\ UNCHANGED valVars

\* Lines 61-75: find the article links and group them by article id.
Group ==
    /\ pc = "group"
    /\ all_links' = FindArticleLinks(soup)
    /\ articles_dict' = GroupLinks(<<>>, soup, all_links')
    /\ pc' = "articles"
    /\ UNCHANGED <<hp, soup, i, results, fetches, total_image_links_preserved,
                   billboard_count, ad_slot_count, output, exitCode>>
    /\ UNCHANGED valVars

\* Lines 81-137: one iteration of the loop over articles_dict, with answer r
\* of the comment server.
ProcessArticleWith(r) ==
    LET links == articles_dict[i + 1].links
        f == fetch_url(r)
        c == IF f.exc # "" THEN Failed(f.exc) ELSE ClassifyComment(f)
        st == IF c.found THEN RewriteGroup(soup, links, c.val)
              ELSE [d |-> soup, headline_updated |-> FALSE,
                    links_with_images |-> 0, exc |-> c.exc]
    IN  /\ fetches' = fetches + 1
        /\ soup' = st.d
        /\ IF st.exc # ""
           THEN /\ pc' = "crashed"
                /\ exitCode' = 1
                /\ UNCHANGED <<i, results, total_image_links_preserved>>
           ELSE /\ pc' = pc
                /\ exitCode' = exitCode
                /\ i' = i + 1
                /\ results' = Append(results, [found |-> c.found, comment |-> c.val,
                                                answer |-> AnswerClass(r)])
                /\ total_image_links_preserved' =
                       total_image_links_preserved + st.links_with_images

ProcessArticle ==
    /\ pc = "articles"
    /\ i < Len(articles_dict)
    /\ \E k \in DOMAIN CommentAnswers : ProcessArticleWith(CommentAnswers[k])
    /\ UNCHANGED <<hp, all_links, articles_dict, billboard_count, ad_slot_count,
                   output>>
    /\ UNCHANGED valVars

\* Lines 142-148, after the loop: remove the billboard containers.
RemoveBillboards ==
    /\ pc = "articles"
    /\ i = Len(articles_dict)
    /\ LET billboard_containers == FindBillboards(soup)
       IN  /\ billboard_count' = Len(billboard_containers)
           /\ soup' = DecomposeAll(soup, billboard_containers)
    /\ pc' = "adslots"
    /\ UNCHANGED <<hp, all_links, articles_dict, i, results, fetches,
                   total_image_links_preserved, ad_slot_count, output, exitCode>>
    /\ UNCHANGED valVars

\* Lines 150-156: remove the ad slots.
RemoveAdSlots ==
    /\ pc = "adslots"
    /\ LET ad_slots == FindAdSlots(soup)
       IN  /\ ad_slot_count' = Len(ad_slots)
           /\ soup' = DecomposeAll(soup, ad_slots)
    /\ pc' = "write"
    /\ UNCHANGED <<hp, all_links, articles_dict, i, results, fetches,
                   total_image_links_preserved, billboard_count, output, exitCode>>
    /\ UNCHANGED valVars

\* Lines 158-169: serialize, fix the asset URLs, write index.html, return 0.
WriteOutput ==
    /\ pc = "write"
    /\ output' = [written |-> TRUE, doc |-> Serialize(soup)]
    /\ pc' = "done"
    /\ exitCode' = 0
    /\ UNCHANGED <<hp, soup, all_links, articles_dict, i, results, fetches,
                   total_image_links_preserved, billboard_count, ad_slot_count>>
    /\ UNCHANGED valVars

Next ==
    \/ FetchHomepage
    \/ Group
    \/ ProcessArticle
    \/ RemoveBillboards
    \/ RemoveAdSlots
    \/ WriteOutput

Spec == Init /\ [][Next]_vars

-----------------------------------------------------------------------------
(* main() of validate_images.py *)

AnchorII(h) == <<A(h, ""), Img(1), Img(1)>>           \* <a><img><img></a>

ValidatorFragments ==
    {AnchorP(HrefR1), AnchorI(HrefR1), AnchorII(HrefR1), AnchorI(HrefR2),
     AnchorI(Absolutize(HrefR1))}

ValidatorDocs == DocsOver(ValidatorFragments, MaxVTop)

\* [l for l in links if l.find('img') is not None]
ImgLinks(d) == SelectSeq(FindArticleLinks(d), LAMBDA l : Find(d, l, "img") # 0)

\* get_article_ids(links), lines 72-78
get_article_ids(d, links) ==
    {FindArticleId(d[links[k]].href)[1] :
        k \in {m \in DOMAIN links : FindArticleId(d[links[m]].href) # <<>>}}

\* original_ids - processed_ids, line 86
missing_ids ==
    get_article_ids(vin.orig, ImgLinks(vin.orig))
        \ get_article_ids(vin.proc, ImgLinks(vin.proc))

\* sum(1 for link in article_links if link.find('img') is not None), lines 103-104
CountImgs(d) == Len(ImgLinks(d))

\* processed_imgs - original_imgs, line 109
img_diff == CountImgs(vin.proc) - CountImgs(vin.orig)

\* Lines 24-35: fetch the original page.
VFetchOriginal ==
    /\ vpc = "fetch"
    /\ IF vin.origOk
       THEN vpc' = "load" /\ vExit' = vExit
       ELSE vpc' = "returned" /\ vExit' = 1
    /\ UNCHANGED vin
    /\ UNCHANGED mainVars

\* Lines 37-49: load index.html.
VLoadProcessed ==
    /\ vpc = "load"
    /\ IF vin.procOk
       THEN vpc' = "compare_ids" /\ vExit' = vExit
       ELSE vpc' = "returned" /\ vExit' = 1
    /\ UNCHANGED vin
    /\ UNCHANGED mainVars

\* Lines 51-96: the article ids with image links.
VCompareIds ==
    /\ vpc = "compare_ids"
    /\ IF missing_ids # {}
       THEN vpc' = "returned" /\ vExit' = 1
       ELSE vpc' = "count_images" /\ vExit' = vExit
    /\ UNCHANGED vin
    /\ UNCHANGED mainVars

\* Lines 98-130: the image count.
VCountImages ==
    /\ vpc = "count_images"
    /\ vpc' = "returned"
    /\ vExit' = IF img_diff < 0 THEN 1 ELSE 0
    /\ UNCHANGED vin
    /\ UNCHANGED mainVars

MainIdle ==
    /\ hp = [r |-> Resp("URLError", 0, "None", JNull), doc |-> <<>>]
    /\ pc = "idle"
    /\ soup = <<>>
    /\ all_links = <<>>
    /\ articles_dict = <<>>
    /\ i = 0
    /\ results = <<>>
    /\ fetches = 0
    /\ total_image_links_preserved = 0
    /\ billboard_count = 0
    /\ ad_slot_count = 0
    /\ output = NoOutput
    /\ exitCode = -1

InitValidator ==
    /\ MainIdle
    /\ vin \in [orig : ValidatorDocs, proc : ValidatorDocs,
                origOk : BOOLEAN, procOk : BOOLEAN]
    /\ vpc = "fetch"
    /\ vExit = -1

NextValidator ==
    \/ VFetchOriginal
    \/ VLoadProcessed
    \/ VCompareIds
    \/ VCountImages

SpecValidator == InitValidator /\ [][NextValidator]_vars

-----------------------------------------------------------------------------
(* Properties *)

\* The parsed input document.
Orig == hp.doc

\* An element and everything below it.
Subtree(d, a) == {j \in DOMAIN d : j = a \/ IsDesc(d, a, j)}

Below(d, a) == {j \in DOMAIN d : IsDesc(d, a, j)}

IsAnchor(d, j) == d[j].tag = "a"

\* The element's own content is exactly the text c: no child element is left.
ContentIs(d, el, c) ==
    /\ d[el].alive
    /\ d[el].text = c
    /\ \A j \in Below(d, el) : ~d[j].alive

\* The anchors of the k-th article group.
GroupAnchors(k) == Range(articles_dict[k].links)

ImageFreeAnchors(k) == {l \in GroupAnchors(k) : Find(Orig, l, "img") = 0}

ImageAnchors(k) == {l \in GroupAnchors(k) : Find(Orig, l, "img") # 0}

FoundText(k) == results[k].found /\ results[k].comment.t = "str"

\* C1: in every article group whose comment was found and that has an
\* image-free anchor, after the rewrite loop over the group exactly one anchor
\* has had its own content replaced by the comment, and it is the first
\* image-free anchor of the group, whatever precedes it in the group.
C1_FirstImageFreeAnchorRewritten ==
    pc = "articles" =>
        \A k \in 1..i :
            (FoundText(k) /\ ImageFreeAnchors(k) # {}) =>
                {l \in GroupAnchors(k) : ContentIs(soup, l, results[k].comment.v)}
                    = {Min(ImageFreeAnchors(k))}

\* C2: every image that lies inside an anchor of the input is, after the whole
\* run, still in the written document, unchanged and at the same place.
C2_ImagesPreserved ==
    pc = "done" =>
        \A a \in DOMAIN Orig : \A j \in Below(Orig, a) :
            (IsAnchor(Orig, a) /\ Orig[j].tag = "img") =>
                /\ output.doc[j] = Orig[j]
                /\ \A m \in DOMAIN Orig :
                       IsDesc(Orig, m, j) => output.doc[m].alive

\* C3: once an article group whose comment answer is NotFound (non-200
\* status, transport failure, empty body, JSON that does not parse, payload
\* without a non-empty page array) has been processed, no anchor of the group
\* has been changed by the rewriter: content and href of each are those of
\* the input.
C3_NotFoundLeavesGroupUntouched ==
    pc = "articles" =>
        \A k \in 1..i : results[k].answer = "NotFound" =>
            \A l \in GroupAnchors(k) :
                \A j \in Subtree(Orig, l) : soup[j] = Orig[j]

\* A state in which a NotFound group with a relative href has been processed
\* after a group that was rewritten.
C3_Witness ==
    /\ pc = "articles"
    /\ i = 2
    /\ results[1].found
    /\ results[2].answer = "NotFound"
    /\ soup # Orig
    /\ \E l \in GroupAnchors(2) : ~StartsWithHttp(soup[l].href)

\* An href with a scheme.
HasScheme(h) == Len(h) > 0 /\ h[1] \in {"http:", "https:"}

\* C4 as stated: every anchor of the written document has an absolute href.
C4_EveryOutputHrefAbsolute ==
    pc = "done" =>
        \A j \in DOMAIN output.doc :
            (output.doc[j].alive /\ IsAnchor(output.doc, j) /\ output.doc[j].hasHref)
                => HasScheme(output.doc[j].href)

IsSuffix(t, s) == Len(t) <= Len(s) /\ SubSeq(s, Len(s) - Len(t) + 1, Len(s)) = t

AfterLoop == {"articles", "adslots", "write", "done"}

\* C4, amended: every anchor of an article group whose comment was found has,
\* once the group is processed, an href that starts with "http": the input
\* href if that started with "http", else the site origin followed by the
\* input href; and so it is in the written document.
C4_FoundGroupHrefsAbsolute ==
    /\ pc \in AfterLoop =>
         \A k \in 1..i : results[k].found =>
             \A l \in GroupAnchors(k) :
                 /\ StartsWithHttp(soup[l].href)
                 /\ IsSuffix(Orig[l].href, soup[l].href)
                 /\ StartsWithHttp(Orig[l].href) => soup[l].href = Orig[l].href
                 /\ ~StartsWithHttp(Orig[l].href) =>
                        Len(soup[l].href) = Len(Orig[l].href) + Len(SiteOrigin)
    /\ pc = "done" =>
         \A k \in 1..i : results[k].found =>
             \A l \in GroupAnchors(k) : HasScheme(output.doc[l].href)

\* A written document with an anchor of a found group whose input href was
\* relative, and one whose input href was already absolute.
C4_Witness ==
    /\ pc = "done"
    /\ \E k \in 1..i :
         /\ results[k].found
         /\ \E l \in GroupAnchors(k) : ~StartsWithHttp(Orig[l].href) /\ output.doc[l].alive
         /\ \E l \in GroupAnchors(k) : StartsWithHttp(Orig[l].href) /\ output.doc[l].alive

\* C5: whatever one article's comment fetch gives, the run goes on: only a
\* homepage fetch failure ends the run before index.html is written.
C5_CommentFailuresIsolated ==
    pc \in {"crashed", "exited"} => fetches = 0

HomepageSucceeds(r) ==
    r.raises = "" /\ r.status = 200 /\ r.body.kind \notin {"None", "empty"}

\* C6: unless the homepage answer has status 200 and a non-empty body the run
\* is fatal: it exits non-zero, fetches no comment, parses and rewrites
\* nothing and writes no index.html.
C6_HomepageFailureFatal ==
    ~HomepageSucceeds(hp.r) =>
        /\ pc \in {"fetch_homepage", "exited", "crashed"}
        /\ exitCode # 0
        /\ fetches = 0
        /\ soup = <<>>
        /\ ~output.written

HasBillboardClass(d, j) == d[j].cls = "billboard-container"

IsAdSlot(d, j) == d[j].tag = "ad-slot"

\* No billboard container and no ad slot is left in the tree.
NoAdLeft(d) ==
    \A j \in DOMAIN d : d[j].alive => ~HasBillboardClass(d, j) /\ ~IsAdSlot(d, j)

Finalized == {"write", "done"}

\* C7 as stated: after finalization no billboard container and no ad slot
\* remains, and each removal counter equals the number of such elements in
\* the input document.
C7_CountersEqualInputCounts ==
    pc = "done" =>
        /\ NoAdLeft(output.doc)
        /\ billboard_count =
               Cardinality({j \in DOMAIN Orig : HasBillboardClass(Orig, j)})
        /\ ad_slot_count = Cardinality({j \in DOMAIN Orig : IsAdSlot(Orig, j)})

\* The element was discarded by the rewriter: it lay inside an anchor or a
\* strong element whose content the rewriter replaced.
Discarded(j) ==
    \E a \in DOMAIN Orig : IsDesc(Orig, a, j) /\ soup[a].text # Orig[a].text

\* The element lies inside a billboard container of the input.
InsideBillboard(j) ==
    \E a \in DOMAIN Orig : IsDesc(Orig, a, j) /\ HasBillboardClass(Orig, a)

\* C7, amended: after finalization no billboard container and no ad slot
\* remains; the billboard counter is the number of billboard containers of
\* the input that the rewriter did not discard, and the ad-slot counter the
\* number of ad slots of the input that the rewriter did not discard and
\* that were not removed with a billboard container.
C7_NoAdLeftAndCountersOfRemoved ==
    /\ pc \in Finalized => NoAdLeft(soup)
    /\ pc = "done" => NoAdLeft(output.doc)
    /\ pc \in {"adslots"} \cup Finalized =>
           billboard_count =
               Cardinality({j \in DOMAIN Orig :
                               HasBillboardClass(Orig, j) /\ ~Discarded(j)})
    /\ pc \in Finalized =>
           ad_slot_count =
               Cardinality({j \in DOMAIN Orig :
                               /\ IsAdSlot(Orig, j)
                               /\ ~Discarded(j)
                               /\ ~HasBillboardClass(Orig, j)
                               /\ ~InsideBillboard(j)})

\* A finished run that removed nested billboard containers and an ad slot,
\* with an ad element the rewriter had discarded before.
C7_Witness ==
    /\ pc = "done"
    /\ billboard_count >= 2
    /\ ad_slot_count >= 1
    /\ \E j \in DOMAIN Orig : HasBillboardClass(Orig, j) /\ InsideBillboard(j)
                                 /\ ~Discarded(j)
    /\ \E j \in DOMAIN Orig : HasBillboardClass(Orig, j) /\ Discarded(j)

\* C9: in every article group whose comment was found, every image-bearing
\* anchor with a strong element has that element's content replaced by the
\* comment and nothing else of the anchor changed, and every image-bearing
\* anchor without a strong element keeps its content.
C9_StrongRewrittenInImageAnchors ==
    pc = "articles" =>
        \A k \in 1..i : results[k].found =>
            \A l \in ImageAnchors(k) :
                LET strong == Find(Orig, l, "strong")
                IN  /\ soup[l].alive
                    /\ soup[l].text = Orig[l].text
                    /\ IF strong # 0
                       THEN /\ ContentIs(soup, strong, results[k].comment.v)
                            /\ \A j \in Below(Orig, l) \ Subtree(Orig, strong) :
                                   soup[j] = Orig[j]
                       ELSE \A j \in Below(Orig, l) : soup[j] = Orig[j]

\* A found group with two image-bearing anchors that have a strong element,
\* and one with an image-bearing anchor that has none.
C9_Witness ==
    /\ pc = "articles"
    /\ \E k \in 1..i :
         /\ results[k].found
         /\ Cardinality({l \in ImageAnchors(k) : Find(Orig, l, "strong") # 0}) >= 2
         /\ \E l \in ImageAnchors(k) : Find(Orig, l, "strong") = 0

\* The places <<k, m>> of the dict where anchor l is a member.
Places(l) ==
    {p \in UNION {{<<k, m>> : m \in DOMAIN articles_dict[k].links} :
                     k \in DOMAIN articles_dict} :
        articles_dict[p[1]].links[p[2]] = l}

\* The anchors the link extractor matches in the input.
Extracted ==
    {j \in DOMAIN Orig :
        IsAnchor(Orig, j) /\ Orig[j].hasHref /\ HrefMatches(Orig[j].href)}

\* C10: after grouping, every anchor the extractor matched is in exactly one
\* group, once; no group is empty; the members of a group yield the group's
\* article id; members are in document order and keys in first-seen order.
C10_GroupingInvariant ==
    (pc = "articles" /\ i = 0) =>
        /\ Range(all_links) = Extracted
        /\ \A l \in Extracted : Cardinality(Places(l)) = 1
        /\ \A k \in DOMAIN articles_dict :
               LET links == articles_dict[k].links
               IN  /\ Len(links) > 0
                   /\ \A m \in DOMAIN links :
                          /\ links[m] \in Extracted
                          /\ FindArticleId(Orig[links[m]].href)
                                 = <<articles_dict[k].id>>
                   /\ \A m, n \in DOMAIN links : m < n => links[m] < links[n]
        /\ \A k, n \in DOMAIN articles_dict :
               k < n => /\ articles_dict[k].id # articles_dict[n].id
                        /\ articles_dict[k].links[1] < articles_dict[n].links[1]

\* Two groups, the first with a member that follows the second group's first
\* member in the document, and an anchor the extractor did not match.
C10_Witness ==
    /\ pc = "articles"
    /\ i = 0
    /\ Len(articles_dict) = 2
    /\ Len(articles_dict[1].links) = 2
    /\ articles_dict[1].links[2] > articles_dict[2].links[1]
    /\ \E l \in GroupAnchors(1) : Orig[l].href = HrefW

\* The image elements inside article-matching anchors.
ImageElements(d) ==
    {j \in DOMAIN d :
        d[j].tag = "img" /\ \E l \in Range(FindArticleLinks(d)) : IsDesc(d, l, j)}

\* C8: with both documents loaded the validator returns non-zero exactly when
\* an article id with an image-bearing anchor in the original has none in
\* the processed document, or the processed document has fewer image
\* elements inside article-matching anchors than the original.
C8_ExitCode ==
    (vpc = "returned" /\ vin.origOk /\ vin.procOk) =>
        (vExit # 0 <=>
            \/ missing_ids # {}
            \/ Cardinality(ImageElements(vin.proc))
                   < Cardinality(ImageElements(vin.orig)))

====
